---- MODULE Spec2Model ----
(***************************************************************************)
(* A model of the stackmuncher analysis core: the Muncher rule loader,     *)
(* the per-file line classifier (process_file) and the Report algebra.     *)
(*                                                                         *)
(* Conventions                                                             *)
(*   - Option<T> is a set with at most one element: None is {} and         *)
(*     Some(x) is {x}.                                                     *)
(*   - Text (lines, regex sources, tokens, file names) is a sequence of    *)
(*     one-character strings; bytes of a blob are the same, with "0xFF"    *)
(*     standing for a byte that is not valid UTF-8.                        *)
(*   - A HashSet<T> whose T has a hand-written Eq is a set of records in   *)
(*     which no two members are equal under that Eq.                       *)
(***************************************************************************)
EXTENDS Integers, Sequences, FiniteSets, TLC

VARIABLES
    pc,                     \* position of the running operation
    args,                   \* process_file: file_name, commit coordinates, all_tree_files
    blob,                   \* process_file: outcome of the latest get_blob_contents for blob_sha1
    ansi,                   \* process_file: try_ansi of the get_file_lines call awaited or returned last
    rules,                  \* process_file: the loaded Muncher
    lines,                  \* process_file: the decoded lines not yet evaluated
    tech,                   \* process_file: the Tech under construction / returned
    inside_block_comment,   \* process_file: the local flag of the line loop
    last,                   \* process_file: the line evaluated by the latest step, with the state before it
    contents,               \* Muncher::new: the two muncher files given to the loader
    loaded,                 \* Muncher::new: what the loader returned for each, once called
    build_pc,               \* report build: "run" while files are analysed, then "done"
    tree,                   \* report build: the files of the tree at HEAD
    store,                  \* report build: the blob of every tree file that has a muncher
    todo,                   \* report build: the tree files not yet visited
    report,                 \* report build: the report under construction
    inputs,                 \* merge: the reports a, b and c given to Report::merge
    merged,                 \* merge: the result of every merge made so far
    mstep,                  \* merge: the number of merges made so far
    rep,                    \* report life: the report the operations of Report act on
    before,                 \* report life: the report as it was before the latest operation
    op,                     \* report life: the latest operation and its arguments
    steps,                  \* report life: the number of operations applied so far
    derived                 \* report life: no operation since the latest recompute_tech_section touched tech or per_file_tech

fileVars == <<pc, args, blob, ansi, rules, lines, tech, inside_block_comment, last>>

muncherVars == <<contents, loaded>>

buildVars == <<build_pc, tree, store, todo, report>>

mergeVars == <<inputs, merged, mstep>>

lifeVars == <<rep, before, op, steps, derived>>

vars == <<fileVars, muncherVars, buildVars, mergeVars, lifeVars>>

(***************************************************************************)
(* Bounds of the model.                                                    *)
(***************************************************************************)
MaxBlobLen == 4

MaxListLen == 2

MaxOps == 3

MaxPathLen == 4

----------------------------------------------------------------------------
(***************************************************************************)
(* Option and sequence helpers.                                            *)
(***************************************************************************)
None == {}

Some(x) == {x}

Unwrap(o) == CHOOSE x \in o : TRUE

Range(s) == {s[i] : i \in 1..Len(s)}

RECURSIVE SeqsUpTo(_, _)
SeqsUpTo(S, n) ==
    IF n = 0 THEN {<<>>}
    ELSE LET shorter == SeqsUpTo(S, n - 1)
         IN  shorter \cup {Append(s, c) : s \in {t \in shorter : Len(t) = n - 1}, c \in S}

(* position of the last occurrence of character c in s, 0 when there is none *)
LastIndexOf(s, c) ==
    LET hits == {i \in 1..Len(s) : s[i] = c}
    IN  IF hits = {} THEN 0 ELSE CHOOSE i \in hits : \A j \in hits : j <= i

(* position of the first occurrence of character c in s, 0 when there is none *)
FirstIndexOf(s, c) ==
    LET hits == {i \in 1..Len(s) : s[i] = c}
    IN  IF hits = {} THEN 0 ELSE CHOOSE i \in hits : \A j \in hits : i <= j

----------------------------------------------------------------------------
(***************************************************************************)
(* regex::Regex, restricted to the patterns the model uses: a literal      *)
(* (characters without metacharacters), which matches a line that holds    *)
(* it as a substring; the pattern "(" and anything holding it, which does  *)
(* not compile (unclosed group); and the blank-line pattern ^\s*$.         *)
(***************************************************************************)
Whitespace == {" ", "\t", "\r", "\n"}

BlankLineSource == <<"^", "\\", "s", "*", "$">>

RegexCompiles(source) == "(" \notin Range(source)

RegexNew(source) ==
    IF ~RegexCompiles(source) THEN None
    ELSE IF source = BlankLineSource THEN Some([kind |-> "blank", s |-> source])
    ELSE Some([kind |-> "literal", s |-> source])

IsSubstring(p, line) ==
    \E i \in 0..(Len(line) - Len(p)) : SubSeq(line, i + 1, i + Len(p)) = p

is_match(r, line) ==
    IF r.kind = "blank" THEN \A i \in 1..Len(line) : line[i] \in Whitespace
    ELSE IsSubstring(r.s, line)

----------------------------------------------------------------------------
(***************************************************************************)
(* Muncher (muncher.rs).  A muncher document is the parsed JSON: language  *)
(* and the nine optional lists of regex sources.  The compiled fields are  *)
(* #[serde(skip)], so they start as None.                                  *)
(***************************************************************************)
SourceFields ==
    <<"keywords", "bracket_only", "line_comments", "inline_comments", "doc_comments",
      "block_comments_start", "block_comments_end", "refs", "packages">>

(* serde_json::from_str::<Muncher>: the struct right after deserialization *)
Deserialized(doc) ==
    [muncher_name |-> "",
     language |-> doc.language,
     keywords |-> doc.keywords,
     bracket_only |-> doc.bracket_only,
     line_comments |-> doc.line_comments,
     inline_comments |-> doc.inline_comments,
     doc_comments |-> doc.doc_comments,
     block_comments_start |-> doc.block_comments_start,
     block_comments_end |-> doc.block_comments_end,
     refs |-> doc.refs,
     packages |-> doc.packages,
     bracket_only_regex |-> None,
     line_comments_regex |-> None,
     inline_comments_regex |-> None,
     doc_comments_regex |-> None,
     block_comments_start_regex |-> None,
     block_comments_end_regex |-> None,
     refs_regex |-> None,
     packages_regex |-> None,
     blank_line_regex |-> None,
     keywords_regex |-> None,
     brand_new |-> FALSE,
     muncher_hash |-> <<>>]

(***************************************************************************)
(* impl Hash for Muncher.  The hash is modelled by the stream of values    *)
(* the fields write into the hasher, in order: a String writes itself and  *)
(* the terminator 0xFF, an Option writes its discriminant and then its     *)
(* content, a Vec writes its length and then its elements.  The 64-bit     *)
(* SipHash of DefaultHasher is taken to be collision-free on the streams   *)
(* of the model, so two hashes are equal exactly when the streams are.     *)
(***************************************************************************)
HashName(s) == <<s, "0xFF">>

HashString(s) == s \o <<"0xFF">>

RECURSIVE HashVec(_)
HashVec(v) == IF v = <<>> THEN <<>> ELSE HashString(Head(v)) \o HashVec(Tail(v))

HashOptionVec(o) ==
    IF o = None THEN <<"discriminant:0">>
    ELSE <<"discriminant:1", "len:" \o ToString(Len(Unwrap(o)))>> \o HashVec(Unwrap(o))

MuncherHashDropsPackages(m) ==
    HashName(m.muncher_name) \o HashName(m.language)
        \o HashOptionVec(m.keywords) \o HashOptionVec(m.bracket_only)
        \o HashOptionVec(m.line_comments) \o HashOptionVec(m.inline_comments)
        \o HashOptionVec(m.doc_comments) \o HashOptionVec(m.block_comments_start)
        \o HashOptionVec(m.block_comments_end) \o HashOptionVec(m.refs)

MuncherHash(m) ==
    HashName(m.muncher_name) \o HashName(m.language)
        \o HashOptionVec(m.keywords) \o HashOptionVec(m.bracket_only)
        \o HashOptionVec(m.line_comments) \o HashOptionVec(m.inline_comments)
        \o HashOptionVec(m.doc_comments) \o HashOptionVec(m.block_comments_start)
        \o HashOptionVec(m.block_comments_end) \o HashOptionVec(m.refs)
        \o HashOptionVec(m.packages)

(* Muncher::add_regex_to_list: the list after the call and the returned bool *)
add_regex_to_list(list, regex) ==
    LET compiled == RegexNew(regex)
    IN  IF compiled = None THEN [list |-> list, ok |-> FALSE]
        ELSE [list |-> Some((IF list = None THEN <<>> ELSE Unwrap(list)) \o <<Unwrap(compiled)>>),
              ok |-> TRUE]

(* one `if let Some(v) = self.X.as_ref() { for s in v { .. add_regex_to_list(..) } }` *)
RECURSIVE CompileEach(_, _)
CompileEach(list, v) ==
    IF v = <<>> THEN [list |-> list, ok |-> TRUE]
    ELSE LET one == add_regex_to_list(list, Head(v))
             rest == CompileEach(one.list, Tail(v))
         IN  [list |-> rest.list, ok |-> one.ok /\ rest.ok]

CompileSources(list, sources) ==
    IF sources = None THEN [list |-> list, ok |-> TRUE]
    ELSE CompileEach(list, Unwrap(sources))

(* Muncher::compile_all_regex: the muncher after the call and Ok (TRUE) / Err (FALSE) *)
compile_all_regex(m) ==
    LET bo == CompileSources(m.bracket_only_regex, m.bracket_only)
        lc == CompileSources(m.line_comments_regex, m.line_comments)
        ic == CompileSources(m.inline_comments_regex, m.inline_comments)
        dc == CompileSources(m.doc_comments_regex, m.doc_comments)
        bs == CompileSources(m.block_comments_start_regex, m.block_comments_start)
        be == CompileSources(m.block_comments_end_regex, m.block_comments_end)
        rf == CompileSources(m.refs_regex, m.refs)
        pk == CompileSources(m.packages_regex, m.packages)
        \* the result of add_regex_to_list is dropped for keywords
        kw == CompileSources(m.keywords_regex, m.keywords)
        bl == add_regex_to_list(m.blank_line_regex, BlankLineSource)
    IN  [m |-> [m EXCEPT !.bracket_only_regex = bo.list,
                         !.line_comments_regex = lc.list,
                         !.inline_comments_regex = ic.list,
                         !.doc_comments_regex = dc.list,
                         !.block_comments_start_regex = bs.list,
                         !.block_comments_end_regex = be.list,
                         !.refs_regex = rf.list,
                         !.packages_regex = pk.list,
                         !.keywords_regex = kw.list,
                         !.blank_line_regex = bl.list],
         ok |-> bo.ok /\ lc.ok /\ ic.ok /\ dc.ok /\ bs.ok /\ be.ok /\ rf.ok /\ pk.ok /\ bl.ok]

(* Muncher::new: None, or Some(muncher) *)
MuncherNew(muncher_contents, muncher_name) ==
    IF ~muncher_contents.valid THEN None
    ELSE LET conf0 == [Deserialized(muncher_contents.doc) EXCEPT
                           !.muncher_name = muncher_name, !.brand_new = TRUE]
             conf1 == [conf0 EXCEPT !.muncher_hash = MuncherHash(conf0)]
             compiled == compile_all_regex(conf1)
         IN  IF ~compiled.ok THEN None ELSE Some(compiled.m)

----------------------------------------------------------------------------
(***************************************************************************)
(* KeywordCounter sets (kwc.rs) and the Tech helpers of tech.rs that the   *)
(* file processor calls.                                                   *)
(***************************************************************************)
KeywordCounter(k, c) == [k |-> k, t |-> None, c |-> c]

(* KeywordCounterSet::increment_counters: add the counts when the token exists, else insert *)
increment_counters(set, entry) ==
    IF \E e \in set : e.k = entry.k
    THEN LET old == CHOOSE e \in set : e.k = entry.k
         IN  (set \ {old}) \cup {[old EXCEPT !.c = old.c + entry.c]}
    ELSE set \cup {entry}

(* one token per pattern of the list that matches the line: the whole match of a literal *)
RECURSIVE CountMatches(_, _, _)
CountMatches(set, regexes, line) ==
    IF regexes = <<>> THEN set
    ELSE LET r == Head(regexes)
             next == IF is_match(r, line) THEN increment_counters(set, KeywordCounter(r.s, 1))
                     ELSE set
         IN  CountMatches(next, Tail(regexes), line)

count_refs(t, regex, line) ==
    IF regex = None THEN t ELSE [t EXCEPT !.refs = CountMatches(t.refs, Unwrap(regex), line)]

count_pkgs(t, regex, line) ==
    IF regex = None THEN t ELSE [t EXCEPT !.pkgs = CountMatches(t.pkgs, Unwrap(regex), line)]

count_keywords(t, regex, line) ==
    IF regex = None THEN t
    ELSE [t EXCEPT !.keywords = CountMatches(t.keywords, Unwrap(regex), line)]

(* the file name without its folders and without its extension *)
FileStem(f) ==
    LET base == SubSeq(f, LastIndexOf(f, "/") + 1, Len(f))
        dot == LastIndexOf(base, ".")
    IN  IF dot = 0 THEN base ELSE SubSeq(base, 1, dot - 1)

(* Tech::remove_local_imports: drop the refs that name a file of the tree *)
remove_local_imports(t, all_tree_files) ==
    IF all_tree_files = None THEN t
    ELSE LET files == Unwrap(all_tree_files)
         IN  [t EXCEPT !.refs =
                 {r \in t.refs : r.k \notin files /\ r.k \notin {FileStem(f) : f \in files}}]

----------------------------------------------------------------------------
(***************************************************************************)
(* The file processor (processors/mod.rs).                                 *)
(***************************************************************************)
(* the blank structure process_file prepares before it reads the file *)
BlankTechCountsNoFile(r, a) ==
    [language |-> r.language, muncher_name |-> r.muncher_name,
     file_name |-> Some(a.file_name), commit_sha1 |-> Some(a.commit_sha1),
     commit_date_epoch |-> Some(a.commit_date_epoch),
     commit_date_iso |-> Some(a.commit_date_iso),
     files |-> 0, total_lines |-> 0, code_lines |-> 0, line_comments |-> 0,
     block_comments |-> 0, docs_comments |-> 0, inline_comments |-> 0, blank_lines |-> 0,
     bracket_only_lines |-> 0, keywords |-> {}, refs |-> {}, refs_kw |-> None, pkgs |-> {},
     pkgs_kw |-> None, muncher_hash |-> r.muncher_hash, history |-> None]

BlankTech(r, a) ==
    [language |-> r.language,
     muncher_name |-> r.muncher_name,
     file_name |-> Some(a.file_name),
     commit_sha1 |-> Some(a.commit_sha1),
     commit_date_epoch |-> Some(a.commit_date_epoch),
     commit_date_iso |-> Some(a.commit_date_iso),
     files |-> 1,
     total_lines |-> 0,
     code_lines |-> 0,
     line_comments |-> 0,
     block_comments |-> 0,
     docs_comments |-> 0,
     inline_comments |-> 0,
     blank_lines |-> 0,
     bracket_only_lines |-> 0,
     keywords |-> {},
     refs |-> {},
     refs_kw |-> None,
     pkgs |-> {},
     pkgs_kw |-> None,
     muncher_hash |-> r.muncher_hash,
     history |-> None]

(* DecodeReaderBytes::new + read_to_string: bytes without a BOM pass through and must be UTF-8 *)
DecodeUtf8(bytes) == IF "0xFF" \in Range(bytes) THEN None ELSE Some(bytes)

(* DecodeReaderBytesBuilder .encoding(WINDOWS_1252): every byte maps to a character *)
DecodeWindows1252(bytes) ==
    Some([i \in 1..Len(bytes) |-> IF bytes[i] = "0xFF" THEN "U+00FF" ELSE bytes[i]])

(* str::lines: split after every \n, drop the \n and a \r right before it *)
RECURSIVE StrLines(_)
StrLines(text) ==
    IF text = <<>> THEN <<>>
    ELSE LET nl == FirstIndexOf(text, "\n")
         IN  IF nl = 0 THEN <<text>>
             ELSE LET raw == SubSeq(text, 1, nl - 1)
                      line == IF raw # <<>> /\ raw[Len(raw)] = "\r"
                              THEN SubSeq(raw, 1, Len(raw) - 1) ELSE raw
                  IN  <<line>> \o StrLines(SubSeq(text, nl + 1, Len(text)))

(* get_file_lines: None for Err(()), Some(lines) for Ok(lines) *)
get_file_lines(b, try_ansi) ==
    IF ~b.ok THEN None
    ELSE LET decoded == IF try_ansi THEN DecodeWindows1252(b.bytes) ELSE DecodeUtf8(b.bytes)
         IN  IF decoded = None THEN None ELSE Some(StrLines(Unwrap(decoded)))

(* process_file lines 54-67 when both attempts are served the same outcome b: the UTF-8
   attempt, then the ANSI attempt *)
ReadLines(b) ==
    IF get_file_lines(b, FALSE) # None THEN get_file_lines(b, FALSE)
    ELSE get_file_lines(b, TRUE)

match_line(regex, line) ==
    /\ regex # None
    /\ \E i \in 1..Len(Unwrap(regex)) : is_match(Unwrap(regex)[i], line)

Bump(t, counter) == [t EXCEPT ![counter] = @ + 1]

(* lines 86-94: a line read inside a block comment *)
InsideBlockLine(r, t, line) ==
    [tech |-> Bump(t, "block_comments"),
     inside |-> ~match_line(r.block_comments_end_regex, line)]

(* lines 96-111: a line that opens a block comment *)
BlockStartLineAlwaysEnters(r, t, line) ==
    [tech |-> Bump(t, "block_comments"), inside |-> TRUE]

BlockStartLine(r, t, line) ==
    [tech |-> Bump(t, "block_comments"),
     inside |-> ~match_line(r.block_comments_end_regex, line)]

(* lines 143-150: a code line, with its keywords, refs and packages *)
CodeLine(r, t, line) ==
    count_keywords(
        count_pkgs(
            count_refs(Bump(t, "code_lines"), r.refs_regex, line),
            r.packages_regex, line),
        r.keywords_regex, line)

(* lines 113-150: a line outside any block comment *)
OtherLineDocFallsThrough(r, t, line) ==
    LET t1 == IF match_line(r.doc_comments_regex, line) THEN Bump(t, "docs_comments") ELSE t
    IN  IF match_line(r.line_comments_regex, line) THEN Bump(t1, "line_comments")
        ELSE IF match_line(r.inline_comments_regex, line) THEN Bump(t1, "inline_comments")
        ELSE IF match_line(r.bracket_only_regex, line) THEN Bump(t1, "bracket_only_lines")
        ELSE IF match_line(r.blank_line_regex, line) THEN Bump(t1, "blank_lines")
        ELSE CodeLine(r, t1, line)

OtherLineLineBeforeDoc(r, t, line) ==
    IF match_line(r.line_comments_regex, line) THEN Bump(t, "line_comments")
    ELSE IF match_line(r.doc_comments_regex, line) THEN Bump(t, "docs_comments")
    ELSE IF match_line(r.inline_comments_regex, line) THEN Bump(t, "inline_comments")
    ELSE IF match_line(r.bracket_only_regex, line) THEN Bump(t, "bracket_only_lines")
    ELSE IF match_line(r.blank_line_regex, line) THEN Bump(t, "blank_lines")
    ELSE CodeLine(r, t, line)

OtherLine(r, t, line) ==
    IF match_line(r.doc_comments_regex, line) THEN Bump(t, "docs_comments")
    ELSE IF match_line(r.line_comments_regex, line) THEN Bump(t, "line_comments")
    ELSE IF match_line(r.inline_comments_regex, line) THEN Bump(t, "inline_comments")
    ELSE IF match_line(r.bracket_only_regex, line) THEN Bump(t, "bracket_only_lines")
    ELSE IF match_line(r.blank_line_regex, line) THEN Bump(t, "blank_lines")
    ELSE CodeLine(r, t, line)

(* lines 81-151: one iteration of the line loop *)
EvaluateLineBody(r, t, inside, line) ==
    IF inside THEN InsideBlockLine(r, t, line)
    ELSE IF match_line(r.block_comments_start_regex, line) THEN BlockStartLine(r, t, line)
    ELSE [tech |-> OtherLine(r, t, line), inside |-> FALSE]

(* lines 81-151: the loop over the lines left *)
RECURSIVE EvaluateLines(_, _, _, _)
EvaluateLines(r, t, inside, ls) ==
    IF ls = <<>> THEN t
    ELSE LET step == EvaluateLineBody(r, t, inside, Head(ls))
         IN  EvaluateLines(r, step.tech, step.inside, Tail(ls))

(* process_file as one call whose reads of the blob are all served b: the Tech of
   Ok(tech); the function never returns Err *)
process_file(a, b, r) ==
    LET blank == BlankTech(r, a)
        read == ReadLines(b)
    IN  IF read = None THEN blank
        ELSE IF Len(Unwrap(read)) = 0 THEN blank
        ELSE remove_local_imports(
                 EvaluateLines(r, [blank EXCEPT !.total_lines = Len(Unwrap(read))], FALSE,
                               Unwrap(read)),
                 a.all_tree_files)

(* the Result<Tech, String> of process_file: each of its three returns (lines 62, 71
   and 156) is Ok(tech), also when get_blob_contents failed in both attempts *)
ProcessFileResult(a, b, r) == [ok |-> TRUE, tech |-> process_file(a, b, r)]

----------------------------------------------------------------------------
(***************************************************************************)
(* Iteration over a HashSet.  The order is unspecified: where the result   *)
(* of a loop can depend on it the order is an explicit argument, drawn     *)
(* from Orderings; where it cannot (increments of counters with distinct   *)
(* tokens, inserts of records with distinct identities) SeqOfSet fixes one.*)
(***************************************************************************)
Orderings(S) ==
    {o \in [1..Cardinality(S) -> S] : \A i, j \in 1..Cardinality(S) : o[i] = o[j] => i = j}

SeqOfSet(S) == CHOOSE o \in Orderings(S) : TRUE

----------------------------------------------------------------------------
(***************************************************************************)
(* Tech (tech.rs): equality, the reset before aggregation and the keyword  *)
(* summaries of refs and pkgs.                                             *)
(***************************************************************************)
(* impl PartialEq / Hash for Tech: the identity of a record, not its counts *)
TechEq(t1, t2) ==
    /\ t1.language = t2.language
    /\ t1.muncher_name = t2.muncher_name
    /\ t1.file_name = t2.file_name

(* HashSet<Tech>::insert: an equal member stays and the new value is dropped *)
TechSetInsert(set, t) == IF \E e \in set : TechEq(e, t) THEN set ELSE set \cup {t}

(* Tech::reset_file_and_commit_info *)
reset_file_and_commit_info(t) ==
    [t EXCEPT !.file_name = None, !.commit_sha1 = None, !.commit_date_epoch = None,
              !.commit_date_iso = None, !.muncher_name = ""]

(* KeywordCounterSet merge: increment_counters for every entry of other *)
RECURSIVE IncrementAll(_, _)
IncrementAll(set, entries) ==
    IF entries = <<>> THEN set
    ELSE IncrementAll(increment_counters(set, Head(entries)), Tail(entries))

KwcMerge(set, other) == IncrementAll(set, SeqOfSet(other))

IdentifierChars == {"a", "b", "x", "y", "z", "_"}

(* the identifier words of a token, split at every other character *)
RECURSIVE SplitWords(_, _)
SplitWords(token, word) ==
    IF token = <<>> THEN (IF word = <<>> THEN <<>> ELSE <<word>>)
    ELSE IF Head(token) \in IdentifierChars THEN SplitWords(Tail(token), Append(word, Head(token)))
    ELSE (IF word = <<>> THEN <<>> ELSE <<word>>) \o SplitWords(Tail(token), <<>>)

RECURSIVE SummarizeEach(_, _)
SummarizeEach(set, entries) ==
    IF entries = <<>> THEN set
    ELSE LET words == SplitWords(Head(entries).k, <<>>)
             counted == [i \in 1..Len(words) |-> KeywordCounter(words[i], Head(entries).c)]
         IN  SummarizeEach(IncrementAll(set, counted), Tail(entries))

(* Tech::new_kw_summary: the words of the tokens, recounted; None when there are none *)
new_kw_summary(kwc) ==
    LET summary == SummarizeEach({}, SeqOfSet(kwc))
    IN  IF summary = {} THEN None ELSE Some(summary)

----------------------------------------------------------------------------
(***************************************************************************)
(* Report (report.rs).                                                     *)
(***************************************************************************)
REPORT_FILE_NAME_SUFFIX == ".report"

(* Report::new, with the fresh UUID and the current time as arguments *)
ReportNew(uuid, now) ==
    [tech |-> {},
     per_file_tech |-> {},
     timestamp |-> now,
     unprocessed_file_names |-> {},
     unknown_file_types |-> {},
     github_user_name |-> "",
     github_repo_name |-> "",
     remote_url_hashes |-> None,
     report_s3_name |-> "",
     report_id |-> uuid,
     reports_included |-> {},
     git_ids_included |-> {},
     contributor_git_ids |-> None,
     contributors |-> None,
     date_head |-> None,
     date_init |-> None,
     tree_files |-> None,
     report_commit_sha1 |-> None,
     is_single_commit |-> FALSE,
     log_hash |-> None,
     last_commit_author |-> None]

MergeKwSummary(master_kw, tech_kw) ==
    IF tech_kw = None THEN master_kw
    ELSE Some(KwcMerge(IF master_kw = None THEN {} ELSE Unwrap(master_kw), Unwrap(tech_kw)))

(* lines 201-249: the matching record with the counters and keyword sets of tech added *)
AddUpKeepsFiles(master, t) ==
    [master EXCEPT !.docs_comments = @ + t.docs_comments,
                   !.inline_comments = @ + t.inline_comments,
                   !.line_comments = @ + t.line_comments,
                   !.total_lines = @ + t.total_lines,
                   !.blank_lines = @ + t.blank_lines,
                   !.block_comments = @ + t.block_comments,
                   !.bracket_only_lines = @ + t.bracket_only_lines,
                   !.code_lines = @ + t.code_lines,
                   !.keywords = KwcMerge(@, t.keywords),
                   !.refs = KwcMerge(@, t.refs),
                   !.pkgs = KwcMerge(@, t.pkgs),
                   !.refs_kw = MergeKwSummary(@, t.refs_kw),
                   !.pkgs_kw = MergeKwSummary(@, t.pkgs_kw)]

AddUp(master, t) ==
    [master EXCEPT !.docs_comments = @ + t.docs_comments,
                   !.files = @ + t.files,
                   !.inline_comments = @ + t.inline_comments,
                   !.line_comments = @ + t.line_comments,
                   !.total_lines = @ + t.total_lines,
                   !.blank_lines = @ + t.blank_lines,
                   !.block_comments = @ + t.block_comments,
                   !.bracket_only_lines = @ + t.bracket_only_lines,
                   !.code_lines = @ + t.code_lines,
                   !.keywords = KwcMerge(@, t.keywords),
                   !.refs = KwcMerge(@, t.refs),
                   !.pkgs = KwcMerge(@, t.pkgs),
                   !.refs_kw = MergeKwSummary(@, t.refs_kw),
                   !.pkgs_kw = MergeKwSummary(@, t.pkgs_kw)]

(* Report::merge_tech_record *)
merge_tech_record(self, tech_record) ==
    LET t == reset_file_and_commit_info(tech_record)
    IN  IF \E m \in self.tech : TechEq(m, t)
        THEN LET master == CHOOSE m \in self.tech : TechEq(m, t)
             IN  [self EXCEPT !.tech = TechSetInsert(self.tech \ {master}, AddUp(master, t))]
        ELSE [self EXCEPT !.tech = TechSetInsert(self.tech, reset_file_and_commit_info(t))]

RECURSIVE MergeTechRecords(_, _)
MergeTechRecords(self, records) ==
    IF records = <<>> THEN self
    ELSE MergeTechRecords(merge_tech_record(self, Head(records)), Tail(records))

(* lines 104-115: other_report.tech with fresh keyword summaries and without muncher names,
   folded per language in the order the set is drained *)
NormalizedTech(drain_order) ==
    MergeTechRecords(
        ReportNew("", ""),
        [i \in 1..Len(drain_order) |->
            [drain_order[i] EXCEPT !.refs_kw = new_kw_summary(drain_order[i].refs),
                                   !.pkgs_kw = new_kw_summary(drain_order[i].pkgs),
                                   !.muncher_name = ""]]).tech

(* ISO-8601 dates of the model in lexicographic order, and the string comparison on them *)
Dates == <<"2020-01-01T00:00:00Z", "2021-01-01T00:00:00Z", "2022-01-01T00:00:00Z">>

DateRank(d) == CHOOSE i \in 1..Len(Dates) : Dates[i] = d

StrLess(d1, d2) == DateRank(d1) < DateRank(d2)

MergedDateHeadTakesOther(master, other) ==
    IF master.date_head = None \/ other.date_head = None THEN other.date_head
    ELSE IF StrLess(Unwrap(master.date_head), Unwrap(other.date_head))
    THEN other.date_head
    ELSE master.date_head

(* lines 142-152 *)
MergedDateHead(master, other) ==
    IF master.date_head = None THEN other.date_head
    ELSE IF other.date_head # None /\ StrLess(Unwrap(master.date_head), Unwrap(other.date_head))
    THEN other.date_head
    ELSE master.date_head

(* lines 154-164 *)
MergedDateInit(master, other) ==
    IF master.date_init = None THEN other.date_init
    ELSE IF other.date_init # None /\ StrLess(Unwrap(other.date_init), Unwrap(master.date_init))
    THEN other.date_init
    ELSE master.date_init

(* lines 166-182 *)
MergedContributorIds(master, other) ==
    IF other.contributor_git_ids = None THEN master.contributor_git_ids
    ELSE Some((IF master.contributor_git_ids = None THEN {}
               ELSE Unwrap(master.contributor_git_ids)) \cup Unwrap(other.contributor_git_ids))

(* lines 137-140 *)
MergedReportsIncluded(master, other) ==
    IF other.report_s3_name # "" THEN master.reports_included \cup {other.report_s3_name}
    ELSE master.reports_included

(* Report::merge: merge_into is None or Some(report), drain_order is the order in which
   other_report.tech is drained; the result is Some(report) *)
merge(merge_into, other_report, drain_order) ==
    LET other == [other_report EXCEPT !.tech = NormalizedTech(drain_order)]
    IN  IF merge_into = None
        THEN Some([other EXCEPT !.unprocessed_file_names = {}])
        ELSE LET master == Unwrap(merge_into)
                 with_tech == MergeTechRecords(master, SeqOfSet(other.tech))
             IN  Some([with_tech EXCEPT
                     !.unknown_file_types = KwcMerge(@, other.unknown_file_types),
                     !.reports_included = MergedReportsIncluded(master, other),
                     !.date_head = MergedDateHead(master, other),
                     !.date_init = MergedDateInit(master, other),
                     !.contributor_git_ids = MergedContributorIds(master, other)])

RecomputeKeepsTech(self, order) == MergeTechRecords(self, order)

(* Report::recompute_tech_section, with the order in which per_file_tech is iterated *)
recompute_tech_section(self, order) == MergeTechRecords([self EXCEPT !.tech = {}], order)

(* Report::generate_report_s3_name *)
generate_report_s3_name(github_user_name, github_repo_name, contributor_sha1_hash) ==
    IF github_user_name = "" \/ github_repo_name = "" THEN ""
    ELSE LET contributor_part ==
                 IF contributor_sha1_hash = None THEN "" ELSE "/" \o Unwrap(contributor_sha1_hash)
         IN  github_user_name \o "/" \o github_repo_name \o contributor_part
                 \o REPORT_FILE_NAME_SUFFIX

WithGithubForgetsName(self, github_user_name, github_repo_name, contributor_sha1_hash) ==
    LET name == generate_report_s3_name(github_user_name, github_repo_name,
                                        contributor_sha1_hash)
        named == IF github_user_name = "" \/ github_repo_name = "" THEN self
                 ELSE [self EXCEPT !.report_s3_name = name]
    IN  [named EXCEPT !.github_user_name = github_user_name,
                      !.github_repo_name = github_repo_name]

(* Report::with_github *)
with_github(self, github_user_name, github_repo_name, contributor_sha1_hash) ==
    LET name == generate_report_s3_name(github_user_name, github_repo_name,
                                        contributor_sha1_hash)
        named == IF github_user_name = "" \/ github_repo_name = "" THEN self
                 ELSE [self EXCEPT !.report_s3_name = name,
                                   !.reports_included =
                                       IF name # "" THEN @ \cup {name} ELSE @]
    IN  [named EXCEPT !.github_user_name = github_user_name,
                      !.github_repo_name = github_repo_name]

(* str::trim_start_matches(".") *)
RECURSIVE TrimStartDots(_)
TrimStartDots(str) ==
    IF str # <<>> /\ Head(str) = "." THEN TrimStartDots(Tail(str)) ELSE str

(* Report::add_unprocessed_file *)
add_unprocessed_file(self, file_name) ==
    LET listed == [self EXCEPT !.unprocessed_file_names = @ \cup {file_name}]
        position == LastIndexOf(file_name, ".")
        ext == SubSeq(file_name, position, Len(file_name))
    IN  IF position = 0 THEN listed
        ELSE IF ext # <<>> /\ "/" \notin Range(ext) /\ "\\" \notin Range(ext)
        THEN [listed EXCEPT !.unknown_file_types =
                 increment_counters(@, KeywordCounter(TrimStartDots(ext), 1))]
        ELSE listed

RECURSIVE AddUnprocessedFiles(_, _)
AddUnprocessedFiles(self, files) ==
    IF files = <<>> THEN self
    ELSE AddUnprocessedFiles(add_unprocessed_file(self, Head(files)), Tail(files))

(* lines 602-606: the file names of per_file_tech, the empty name for a record without one *)
ProcessedFiles(self) ==
    {IF t.file_name = None THEN <<>> ELSE Unwrap(t.file_name) : t \in self.per_file_tech}

(* Report::update_project_file_lists *)
update_project_file_lists(self, all_tree_files) ==
    [AddUnprocessedFiles(self, SeqOfSet(all_tree_files \ ProcessedFiles(self)))
        EXCEPT !.tree_files = Some(all_tree_files)]

(* Contributor::git_identity_from_name_email_pair *)
git_identity_from_name_email_pair(author_name_email) == author_name_email

(* Contributor::from_commit_history: one contributor per git identity of the log *)
ContributorsFromHistory(git_log) ==
    SeqOfSet({[git_id |-> git_identity_from_name_email_pair(git_log[i].author_name_email),
               touched_files |-> {}] : i \in 1..Len(git_log)})

(* Report::add_commits_history up to its await (lines 523-565): head, init, log hash and
   contributors are written; the log is newest first *)
AddCommitsHistoryStart(self, git_log) ==
    LET newest == git_log[1]
        oldest == git_log[Len(git_log)]
        with_head == IF git_log # <<>> /\ newest.date_epoch > 0
                     THEN [self EXCEPT
                              !.date_head = Some(newest.date),
                              !.report_commit_sha1 = Some(newest.sha1),
                              !.last_commit_author =
                                  Some(git_identity_from_name_email_pair(
                                           newest.author_name_email))]
                     ELSE self
        with_init == IF git_log # <<>> /\ oldest.date_epoch > 0
                     THEN [with_head EXCEPT !.date_init = Some(oldest.date)]
                     ELSE with_head
        contributors == ContributorsFromHistory(git_log)
    IN  [with_init EXCEPT
            !.log_hash = Some([i \in 1..Len(git_log) |-> git_log[i].sha1]),
            !.contributors = Some(contributors),
            !.contributor_git_ids =
                Some({contributors[i].git_id : i \in 1..Len(contributors)})]

(* Report::add_commits_history from its await on (lines 568-579); remote_hashes is the
   outcome of get_hashed_remote_urls: None when it failed, else the hashes *)
AddCommitsHistoryResume(report_, remote_hashes) ==
    [report_ EXCEPT !.remote_url_hashes = remote_hashes]

(* Report::add_commits_history as one call *)
add_commits_history(self, git_log, remote_hashes) ==
    AddCommitsHistoryResume(AddCommitsHistoryStart(self, git_log), remote_hashes)

(* Report::copy_commit_info *)
copy_commit_info(self, old_report) ==
    [self EXCEPT !.contributors = old_report.contributors,
                 !.date_head = old_report.date_head,
                 !.date_init = old_report.date_init,
                 !.remote_url_hashes = old_report.remote_url_hashes]

(* Option<i64> comparison `a > b`: None is below every Some *)
EpochGreater(a, b) == a # None /\ (b = None \/ Unwrap(a) > Unwrap(b))

MergeContributorTechKeepsExisting(per_file_tech, t) == TechSetInsert(per_file_tech, t)

MergeContributorTechKeepsOnTie(per_file_tech, t) ==
    IF \E existing_tech \in per_file_tech :
           /\ TechEq(existing_tech, t)
           /\ ~EpochGreater(t.commit_date_epoch, existing_tech.commit_date_epoch)
    THEN per_file_tech
    ELSE TechSetInsert({e \in per_file_tech : ~TechEq(e, t)}, t)

(* lines 266-281: one pass of the loop over other_report.per_file_tech *)
MergeContributorTech(per_file_tech, t) ==
    IF \E existing_tech \in per_file_tech :
           /\ TechEq(existing_tech, t)
           /\ EpochGreater(existing_tech.commit_date_epoch, t.commit_date_epoch)
    THEN per_file_tech
    ELSE TechSetInsert(
             {e \in per_file_tech :
                  ~TechEq(e, t) \/ EpochGreater(e.commit_date_epoch, t.commit_date_epoch)},
             t)

RECURSIVE MergeContributorTechs(_, _)
MergeContributorTechs(per_file_tech, records) ==
    IF records = <<>> THEN per_file_tech
    ELSE MergeContributorTechs(MergeContributorTech(per_file_tech, Head(records)),
                               Tail(records))

(* Report::merge_contributor_reports, with the order in which other_report.per_file_tech
   is iterated *)
merge_contributor_reports(self, other_report, contributor_git_id, order) ==
    [self EXCEPT !.per_file_tech = MergeContributorTechs(@, order),
                 !.git_ids_included = @ \cup {contributor_git_id}]

ResetContributorClearsPerFileTech(self, contributor_git_id, uuid, now) ==
    [self EXCEPT !.report_id = uuid,
                 !.timestamp = now,
                 !.report_s3_name = "",
                 !.per_file_tech = {},
                 !.git_ids_included = @ \cup {contributor_git_id}]

(* Report::reset_combined_contributor_report, with the fresh UUID and the current time *)
reset_combined_contributor_report(self, contributor_git_id, uuid, now) ==
    [self EXCEPT !.report_id = uuid,
                 !.timestamp = now,
                 !.report_s3_name = "",
                 !.git_ids_included = @ \cup {contributor_git_id}]

(* Report::reset_combined_dev_report, with the current time *)
reset_combined_dev_report(self, now) ==
    [self EXCEPT !.contributors = None,
                 !.tree_files = None,
                 !.remote_url_hashes = None,
                 !.report_commit_sha1 = None,
                 !.last_commit_author = None,
                 !.log_hash = None,
                 !.unprocessed_file_names = {},
                 !.per_file_tech = {},
                 !.github_repo_name = "",
                 !.github_user_name = "",
                 !.report_id = "",
                 !.report_s3_name = "",
                 !.timestamp = now]

(* Report::abridge *)
abridge(self) ==
    [self EXCEPT
        !.per_file_tech = {},
        !.contributors =
            IF @ = None THEN None
            ELSE Some([i \in 1..Len(Unwrap(@)) |->
                          [Unwrap(@)[i] EXCEPT !.touched_files = {}]])]

----------------------------------------------------------------------------
(***************************************************************************)
(* Inputs of process_file: munchers loaded by Muncher::new from a few      *)
(* documents whose pattern lists overlap, the call's arguments, and the    *)
(* outcome of a get_blob_contents for blob_sha1 (unreadable, or the bytes  *)
(* fetched); every attempt of process_file fetches the blob anew.          *)
(***************************************************************************)
NoRules ==
    [language |-> "", keywords |-> None, bracket_only |-> None, line_comments |-> None,
     inline_comments |-> None, doc_comments |-> None, block_comments_start |-> None,
     block_comments_end |-> None, refs |-> None, packages |-> None]

RuleDocs ==
    {[name |-> "c",
      doc |-> [NoRules EXCEPT !.language = "C",
                              !.block_comments_start = Some(<< <<"a">> >>),
                              !.block_comments_end = Some(<< <<"b">> >>),
                              !.doc_comments = Some(<< <<"a">> >>)]],
     [name |-> "py",
      doc |-> [NoRules EXCEPT !.language = "Python",
                              !.block_comments_start = Some(<< <<"a">> >>),
                              !.block_comments_end = Some(<< <<"a">> >>),
                              !.line_comments = Some(<< <<"b">> >>)]],
     [name |-> "rust",
      doc |-> [NoRules EXCEPT !.language = "Rust",
                              !.doc_comments = Some(<< <<"a">> >>),
                              !.line_comments = Some(<< <<"a">>, <<"b">> >>),
                              !.inline_comments = Some(<< <<"b">> >>)]],
     [name |-> "go",
      doc |-> [NoRules EXCEPT !.language = "Go",
                              !.inline_comments = Some(<< <<"a">> >>),
                              !.bracket_only = Some(<< <<"a">>, <<"b">>, <<" ">> >>)]],
     [name |-> "js",
      doc |-> [NoRules EXCEPT !.language = "JS",
                              !.refs = Some(<< <<"a">> >>),
                              !.packages = Some(<< <<"b">> >>),
                              !.keywords = Some(<< <<"a">>, <<"a", "b">> >>)]]}

LoadedRules ==
    {Unwrap(MuncherNew([valid |-> TRUE, doc |-> d.doc], d.name)) : d \in RuleDocs}

CallArgs ==
    {[file_name |-> <<"x", ".", "c">>, commit_sha1 |-> "c1", commit_date_epoch |-> 100,
      commit_date_iso |-> "2021-01-01", all_tree_files |-> None],
     [file_name |-> <<"b", ".", "c">>, commit_sha1 |-> "c2", commit_date_epoch |-> 200,
      commit_date_iso |-> "2021-02-02",
      all_tree_files |-> Some({<<"a", ".", "c">>, <<"b", ".", "c">>})]}

Bytes == {"a", "b", " ", "\n", "\r", "0xFF"}

Blobs ==
    {[ok |-> FALSE, bytes |-> <<>>]}
        \cup {[ok |-> TRUE, bytes |-> b] : b \in SeqsUpTo(Bytes, MaxBlobLen)}

(* the variables of the file processor while another operation is modelled *)
IdleFile ==
    /\ pc = "idle" /\ args = <<>> /\ blob = <<>> /\ ansi = FALSE /\ rules = <<>>
    /\ lines = <<>>
    /\ tech = <<>> /\ inside_block_comment = FALSE /\ last = None

(* the variables of the loader while another operation is modelled *)
IdleMuncher == contents = <<>> /\ loaded = <<>>

(* the variables of the report build while another operation is modelled *)
IdleBuild == build_pc = "idle" /\ tree = {} /\ store = <<>> /\ todo = {} /\ report = <<>>

(* the variables of the merges while another operation is modelled *)
IdleMerge == inputs = <<>> /\ merged = <<>> /\ mstep = 0

(* the variables of the report life while another operation is modelled *)
IdleLife == rep = <<>> /\ before = <<>> /\ op = <<>> /\ steps = 0 /\ derived = TRUE

(* process_file up to its first await: the blank Tech is prepared (lines 27-51) and
   get_file_lines(.., false) waits for get_blob_contents (lines 54, 170) *)
InitFile ==
    /\ IdleMuncher /\ IdleBuild /\ IdleMerge /\ IdleLife
    /\ pc = "start"
    /\ args \in CallArgs
    /\ blob = <<>>
    /\ ansi = FALSE
    /\ rules \in LoadedRules
    /\ lines = <<>>
    /\ tech = BlankTech(rules, args)
    /\ inside_block_comment = FALSE
    /\ last = None

(* lines 54-58: get_blob_contents answers the UTF-8 attempt, the attempt fails and drops
   what it fetched, and get_file_lines(.., true) waits for get_blob_contents to fetch
   the blob again *)
TryAnsi ==
    /\ pc = "start"
    /\ ~ansi
    /\ \E b \in Blobs : get_file_lines(b, FALSE) = None
    /\ ansi' = TRUE
    /\ UNCHANGED <<pc, args, blob, rules, lines, tech, inside_block_comment, last>>
    /\ UNCHANGED <<muncherVars, buildVars, mergeVars, lifeVars>>

(* lines 58-63: get_blob_contents answers the ANSI attempt and that attempt fails too:
   return the blank Tech *)
ReturnUnreadable ==
    /\ pc = "start"
    /\ ansi
    /\ \E b \in Blobs :
           /\ get_file_lines(b, TRUE) = None
           /\ blob' = b
    /\ pc' = "done"
    /\ UNCHANGED <<args, ansi, rules, lines, tech, inside_block_comment, last>>
    /\ UNCHANGED <<muncherVars, buildVars, mergeVars, lifeVars>>

(* lines 68-72: get_blob_contents answers the attempt awaited and it yields no lines:
   return the blank Tech *)
ReturnEmpty ==
    /\ pc = "start"
    /\ \E b \in Blobs :
           /\ get_file_lines(b, ansi) = Some(<<>>)
           /\ blob' = b
    /\ pc' = "done"
    /\ UNCHANGED <<args, ansi, rules, lines, tech, inside_block_comment, last>>
    /\ UNCHANGED <<muncherVars, buildVars, mergeVars, lifeVars>>

(* lines 74-78: get_blob_contents answers the attempt awaited and it yields lines: set
   total_lines and enter the loop *)
StartLoop ==
    /\ pc = "start"
    /\ \E b \in Blobs :
           /\ get_file_lines(b, ansi) # None
           /\ Len(Unwrap(get_file_lines(b, ansi))) # 0
           /\ blob' = b
           /\ lines' = Unwrap(get_file_lines(b, ansi))
    /\ tech' = [tech EXCEPT !.total_lines = Len(lines')]
    /\ inside_block_comment' = FALSE
    /\ pc' = "loop"
    /\ UNCHANGED <<args, ansi, rules, last>>
    /\ UNCHANGED <<muncherVars, buildVars, mergeVars, lifeVars>>

(* lines 81-151: evaluate the next line *)
EvaluateLine ==
    /\ pc = "loop"
    /\ lines # <<>>
    /\ LET step == EvaluateLineBody(rules, tech, inside_block_comment, Head(lines))
       IN  /\ tech' = step.tech
           /\ inside_block_comment' = step.inside
    /\ last' = Some([line |-> Head(lines), inside |-> inside_block_comment, tech |-> tech])
    /\ lines' = Tail(lines)
    /\ UNCHANGED <<pc, args, blob, ansi, rules>>
    /\ UNCHANGED <<muncherVars, buildVars, mergeVars, lifeVars>>

(* lines 153-156: drop the local imports and return *)
ReturnTech ==
    /\ pc = "loop"
    /\ lines = <<>>
    /\ tech' = remove_local_imports(tech, args.all_tree_files)
    /\ pc' = "done"
    /\ UNCHANGED <<args, blob, ansi, rules, lines, inside_block_comment, last>>
    /\ UNCHANGED <<muncherVars, buildVars, mergeVars, lifeVars>>

NextFile ==
    TryAnsi \/ ReturnUnreadable \/ ReturnEmpty \/ StartLoop \/ EvaluateLine \/ ReturnTech

SpecFile == InitFile /\ [][NextFile]_vars

----------------------------------------------------------------------------
(***************************************************************************)
(* Properties of the file processor.                                       *)
(***************************************************************************)
LineCounters ==
    <<"block_comments", "docs_comments", "line_comments", "inline_comments",
      "bracket_only_lines", "blank_lines", "code_lines">>

ClassSum(t) ==
    t.code_lines + t.blank_lines + t.bracket_only_lines + t.line_comments
        + t.inline_comments + t.docs_comments + t.block_comments

(* C1: every Tech process_file returns has total_lines equal to the sum of its
   seven line-class counters (code, blank, bracket-only, line, inline, docs and
   block comments), for any muncher and any decoded lines, none included. *)
C1_TotalLinesConservation == pc = "done" => tech.total_lines = ClassSum(tech)

C1_Witness ==
    /\ pc = "done"
    /\ tech.total_lines >= 3
    /\ tech.block_comments >= 1
    /\ tech.code_lines >= 1

(* the classification order of the claim, and what it means for a line to match a class *)
ClassOrder ==
    <<"inside", "block_start", "doc", "line", "inline", "bracket_only", "blank", "code">>

ClassMatches(class, r, inside, line) ==
    CASE class = "inside" -> inside
      [] class = "block_start" -> match_line(r.block_comments_start_regex, line)
      [] class = "doc" -> match_line(r.doc_comments_regex, line)
      [] class = "line" -> match_line(r.line_comments_regex, line)
      [] class = "inline" -> match_line(r.inline_comments_regex, line)
      [] class = "bracket_only" -> match_line(r.bracket_only_regex, line)
      [] class = "blank" -> \A i \in 1..Len(line) : line[i] \in Whitespace
      [] class = "code" -> TRUE

ClassCounter(class) ==
    CASE class = "inside" -> "block_comments"
      [] class = "block_start" -> "block_comments"
      [] class = "doc" -> "docs_comments"
      [] class = "line" -> "line_comments"
      [] class = "inline" -> "inline_comments"
      [] class = "bracket_only" -> "bracket_only_lines"
      [] class = "blank" -> "blank_lines"
      [] class = "code" -> "code_lines"

FirstClass(r, inside, line) ==
    LET hits == {i \in 1..Len(ClassOrder) : ClassMatches(ClassOrder[i], r, inside, line)}
    IN  ClassOrder[CHOOSE i \in hits : \A j \in hits : i <= j]

MatchCount(r, inside, line) ==
    Cardinality({i \in 1..(Len(ClassOrder) - 1) : ClassMatches(ClassOrder[i], r, inside, line)})

(* C2: each evaluated line adds 1 to exactly one line-class counter, the one of
   the first class it matches in the order inside-block, block start, doc, line,
   inline, bracket-only, blank, code; every other counter keeps its value. *)
C2_FirstMatchWins ==
    last # None =>
        LET l == Unwrap(last)
            first == ClassCounter(FirstClass(rules, l.inside, l.line))
        IN  \A i \in 1..Len(LineCounters) :
                tech[LineCounters[i]] =
                    l.tech[LineCounters[i]] + (IF LineCounters[i] = first THEN 1 ELSE 0)

C2_Witness ==
    /\ last # None
    /\ ~Unwrap(last).inside
    /\ MatchCount(rules, FALSE, Unwrap(last).line) >= 2
    /\ ClassMatches("doc", rules, FALSE, Unwrap(last).line)
    /\ ClassMatches("line", rules, FALSE, Unwrap(last).line)
    /\ tech.docs_comments = Unwrap(last).tech.docs_comments + 1

(* C3: the block-comment state is entered exactly by a line read outside a block
   that matches block_comments_start and not block_comments_end, and left exactly
   by a line read inside a block that matches block_comments_end; a line read
   inside the block, and a line matching block_comments_start outside it, adds
   exactly 1 to block_comments; a line outside that matches both start and end
   leaves the state outside. *)
C3_BlockCommentState ==
    last # None =>
        LET l == Unwrap(last)
            start == match_line(rules.block_comments_start_regex, l.line)
            end == match_line(rules.block_comments_end_regex, l.line)
        IN  /\ (~l.inside /\ inside_block_comment) <=> (~l.inside /\ start /\ ~end)
            /\ (l.inside /\ ~inside_block_comment) <=> (l.inside /\ end)
            /\ (l.inside \/ start) => tech.block_comments = l.tech.block_comments + 1
            /\ ~(l.inside \/ start) => tech.block_comments = l.tech.block_comments
            /\ (~l.inside /\ start /\ end) => ~inside_block_comment

C3_Witness ==
    /\ last # None
    /\ ~Unwrap(last).inside
    /\ match_line(rules.block_comments_start_regex, Unwrap(last).line)
    /\ match_line(rules.block_comments_end_regex, Unwrap(last).line)
    /\ ~inside_block_comment
    /\ tech.block_comments >= 2

(* C4: when neither decoding attempt yields lines, or the blob decodes to zero
   lines, process_file returns a Tech with files = 1, total_lines = 0, every
   line-class counter 0, empty keywords, refs and pkgs, and the identity fields
   and muncher_hash of its arguments. *)
C4_EmptyOrUndecodable ==
    (pc = "done" /\ get_file_lines(blob, ansi) \in {None, Some(<<>>)}) =>
        /\ tech.files = 1
        /\ tech.total_lines = 0
        /\ \A i \in 1..Len(LineCounters) : tech[LineCounters[i]] = 0
        /\ tech.keywords = {} /\ tech.refs = {} /\ tech.pkgs = {}
        /\ tech.language = rules.language
        /\ tech.muncher_name = rules.muncher_name
        /\ tech.muncher_hash = rules.muncher_hash
        /\ tech.file_name = Some(args.file_name)
        /\ tech.commit_sha1 = Some(args.commit_sha1)
        /\ tech.commit_date_epoch = Some(args.commit_date_epoch)
        /\ tech.commit_date_iso = Some(args.commit_date_iso)

(* the UTF-8 attempt failed, the ANSI attempt was served an unreadable blob *)
C4_Witness ==
    /\ pc = "done"
    /\ ansi
    /\ ~blob.ok
    /\ get_file_lines(blob, ansi) = None
    /\ tech.files = 1

----------------------------------------------------------------------------
(***************************************************************************)
(* Loading munchers: two muncher files, the second one equal to the first  *)
(* or differing from it in one source list, in the name or the language.   *)
(***************************************************************************)
PatternSet == {<<"a">>, <<"(">>, <<"a", "a">>}

ListValues == {None} \cup {Some(l) : l \in SeqsUpTo(PatternSet, MaxListLen)}

BaseContents ==
    {[valid |-> TRUE, name |-> d.name, doc |-> d.doc] : d \in RuleDocs}
        \cup {[valid |-> FALSE, name |-> "broken", doc |-> NoRules]}

Changed(c) ==
    {c} \cup {[c EXCEPT !.doc[SourceFields[f]] = v] : f \in 1..Len(SourceFields), v \in ListValues}
        \cup {[c EXCEPT !.name = "other"], [c EXCEPT !.doc.language = "Other"]}

InitMuncher ==
    /\ IdleFile /\ IdleBuild /\ IdleMerge /\ IdleLife
    /\ \E c1 \in BaseContents : \E c2 \in Changed(c1) : contents = <<c1, c2>>
    /\ loaded = [i \in 1..2 |-> [called |-> FALSE, result |-> None]]

(* a call of Muncher::new on the i-th muncher file *)
LoadMuncher(i) ==
    /\ ~loaded[i].called
    /\ loaded' = [loaded EXCEPT ![i] =
           [called |-> TRUE, result |-> MuncherNew(contents[i], contents[i].name)]]
    /\ UNCHANGED contents
    /\ UNCHANGED <<fileVars, buildVars, mergeVars, lifeVars>>

NextMuncher == \E i \in 1..2 : LoadMuncher(i)

SpecMuncher == InitMuncher /\ [][NextMuncher]_vars

AnySourceFails(doc) ==
    \E f \in 1..Len(SourceFields) :
        /\ doc[SourceFields[f]] # None
        /\ \E j \in 1..Len(Unwrap(doc[SourceFields[f]])) :
               ~RegexCompiles(Unwrap(doc[SourceFields[f]])[j])

CompiledField(f) == f \o "_regex"

FullyCompiled(m) ==
    /\ \A f \in 1..Len(SourceFields) :
           LET sources == m[SourceFields[f]]
               compiled == m[CompiledField(SourceFields[f])]
           IN  IF sources = None \/ sources = Some(<<>>) THEN compiled = None
               ELSE /\ compiled # None
                    /\ Len(Unwrap(compiled)) = Len(Unwrap(sources))
                    /\ \A j \in 1..Len(Unwrap(sources)) :
                           Unwrap(compiled)[j].s = Unwrap(sources)[j]
    /\ m.blank_line_regex # None
    /\ Len(Unwrap(m.blank_line_regex)) = 1

(* C6: Muncher::new is all-or-nothing over the nine source lists: when any source
   pattern of any list fails to compile no Muncher is returned, and a returned
   Muncher holds a compiled pattern for each of its source patterns and the
   blank-line pattern. *)
C6_AllOrNothing ==
    \A i \in 1..2 :
        loaded[i].called =>
            /\ AnySourceFails(contents[i].doc) => loaded[i].result = None
            /\ loaded[i].result # None => FullyCompiled(Unwrap(loaded[i].result))

SourcesOf(m) ==
    <<m.muncher_name, m.language, m.keywords, m.bracket_only, m.line_comments,
      m.inline_comments, m.doc_comments, m.block_comments_start, m.block_comments_end,
      m.refs, m.packages>>

(* C7: two loaded munchers have equal muncher_hash exactly when their name,
   language and nine source lists are equal: identical sources give equal
   hashes, and a change of any element of any source list changes the hash. *)
C7_HashOfSources ==
    (loaded[1].result # None /\ loaded[2].result # None) =>
        LET m1 == Unwrap(loaded[1].result)
            m2 == Unwrap(loaded[2].result)
        IN  (SourcesOf(m1) = SourcesOf(m2)) <=> (m1.muncher_hash = m2.muncher_hash)

C7_Witness ==
    /\ loaded[1].result # None /\ loaded[2].result # None
    /\ Unwrap(loaded[1].result).packages # Unwrap(loaded[2].result).packages
    /\ Unwrap(loaded[1].result).muncher_name = Unwrap(loaded[2].result).muncher_name
    /\ Unwrap(loaded[1].result).muncher_hash # Unwrap(loaded[2].result).muncher_hash

----------------------------------------------------------------------------
(***************************************************************************)
(* The report build: every tree file with a muncher goes through           *)
(* process_file; the Tech of an Ok goes into per_file_tech and a file that *)
(* failed is recorded as unprocessed; then tech is recomputed, the file    *)
(* lists are updated and the report is named.                              *)
(***************************************************************************)
TreeFiles ==
    {<<"a", ".", "c">>, <<"m", ".", "p", "y">>, <<"r", ".", "x">>, <<"d", ".", "e", "/", "n">>}

(* the text after the last "." of the base name, None when the base name has none *)
ExtensionOf(f) ==
    LET base == SubSeq(f, LastIndexOf(f, "/") + 1, Len(f))
        dot == LastIndexOf(base, ".")
    IN  IF dot = 0 THEN None ELSE Some(SubSeq(base, dot + 1, Len(base)))

(* the table from file extension to muncher name *)
ExtensionTable ==
    {[ext |-> <<"c">>, muncher_name |-> "c"], [ext |-> <<"p", "y">>, muncher_name |-> "py"]}

(* the muncher of a path, by its extension: None when no muncher matches *)
MuncherFor(f) ==
    LET named == {r \in LoadedRules :
                     \E e \in ExtensionTable :
                         ExtensionOf(f) = Some(e.ext) /\ r.muncher_name = e.muncher_name}
    IN  IF named = {} THEN None ELSE Some(CHOOSE r \in named : TRUE)

StoreBlobs ==
    {[ok |-> FALSE, bytes |-> <<>>], [ok |-> TRUE, bytes |-> <<>>],
     [ok |-> TRUE, bytes |-> <<"a", "\n", "b">>]}

InitBuild ==
    /\ IdleFile /\ IdleMuncher /\ IdleMerge /\ IdleLife
    /\ build_pc = "run"
    /\ tree \in (SUBSET TreeFiles) \ {{}}
    /\ store \in [{f \in tree : MuncherFor(f) # None} -> StoreBlobs]
    /\ todo = tree
    /\ report = ReportNew("uuid-1", Dates[1])

(* a tree file with a muncher: process_file reads the blob and analyses it; the
   assembler folds the Tech of Ok(tech) into per_file_tech and records the file of an
   Err as unprocessed, with its extension *)
AnalyseFile(f) ==
    /\ build_pc = "run"
    /\ f \in todo
    /\ MuncherFor(f) # None
    /\ LET a == [file_name |-> f, commit_sha1 |-> "c1", commit_date_epoch |-> 100,
                 commit_date_iso |-> Dates[1], all_tree_files |-> Some(tree)]
           result == ProcessFileResult(a, store[f], Unwrap(MuncherFor(f)))
       IN  report' = IF result.ok
                     THEN [report EXCEPT !.per_file_tech = TechSetInsert(@, result.tech)]
                     ELSE add_unprocessed_file(report, f)
    /\ todo' = todo \ {f}
    /\ UNCHANGED <<build_pc, tree, store>>
    /\ UNCHANGED <<fileVars, muncherVars, mergeVars, lifeVars>>

(* a tree file no muncher matches is left for update_project_file_lists *)
SkipFile(f) ==
    /\ build_pc = "run"
    /\ f \in todo
    /\ MuncherFor(f) = None
    /\ todo' = todo \ {f}
    /\ UNCHANGED <<build_pc, tree, store, report>>
    /\ UNCHANGED <<fileVars, muncherVars, mergeVars, lifeVars>>

(* all files visited: recompute tech, list the unprocessed files, name the report *)
FinishBuild ==
    /\ build_pc = "run"
    /\ todo = {}
    /\ \E order \in Orderings(report.per_file_tech) :
           report' = with_github(
                         update_project_file_lists(recompute_tech_section(report, order), tree),
                         "u", "r", None)
    /\ build_pc' = "done"
    /\ UNCHANGED <<tree, store, todo>>
    /\ UNCHANGED <<fileVars, muncherVars, mergeVars, lifeVars>>

NextBuild == (\E f \in TreeFiles : AnalyseFile(f) \/ SkipFile(f)) \/ FinishBuild

SpecBuild == InitBuild /\ [][NextBuild]_vars

FailedFiles == {f \in DOMAIN store : ~store[f].ok}

(* C5: a per-file failure, here a tree file whose blob cannot be read from the object
   store, is recorded in unprocessed_file_names, and its extension, when it has one,
   is counted in unknown_file_types; the build of the report is not aborted. *)
C5_FailureRecordedAsUnprocessed ==
    build_pc = "done" =>
        \A f \in FailedFiles :
            /\ f \in report.unprocessed_file_names
            /\ ExtensionOf(f) # None =>
                   \E e \in report.unknown_file_types : e.k = Unwrap(ExtensionOf(f))

----------------------------------------------------------------------------
(***************************************************************************)
(* Merging project reports.  The inputs are reports of a few small         *)
(* projects, each assembled with the operations above from the Tech that   *)
(* process_file returns for its files.                                     *)
(***************************************************************************)
RulesNamed(name) == CHOOSE r \in LoadedRules : r.muncher_name = name

Commit(n, author) ==
    [sha1 |-> "c" \o ToString(n), date |-> Dates[n], date_epoch |-> n * 100,
     author_name_email |-> author]

Projects ==
    {[user |-> "u", repo |-> "p1", unknown |-> {<<"r", ".", "x">>},
      files |-> {[file_name |-> <<"x", ".", "j", "s">>, rules |-> "js", bytes |-> <<"a">>]},
      git_log |-> <<Commit(1, "ann")>>],
     [user |-> "u", repo |-> "p2", unknown |-> {},
      files |-> {[file_name |-> <<"y", ".", "j", "s">>, rules |-> "js",
                  bytes |-> <<"a", "\n", "b">>]},
      git_log |-> <<Commit(2, "bob"), Commit(1, "ann")>>],
     [user |-> "u", repo |-> "p3", unknown |-> {<<"r", ".", "x">>, <<"s", ".", "z">>},
      files |-> {[file_name |-> <<"a", ".", "c">>, rules |-> "c", bytes |-> <<"a", "\n", "b">>]},
      git_log |-> <<Commit(3, "bob")>>],
     [user |-> "u", repo |-> "p4", unknown |-> {},
      files |-> {[file_name |-> <<"x", ".", "j", "s">>, rules |-> "js", bytes |-> <<"b">>],
                 [file_name |-> <<"a", ".", "c">>, rules |-> "c", bytes |-> <<"x">>]},
      git_log |-> <<Commit(3, "cy"), Commit(2, "cy")>>],
     [user |-> "", repo |-> "", unknown |-> {},
      files |-> {[file_name |-> <<"y", ".", "j", "s">>, rules |-> "js", bytes |-> <<"b">>]},
      git_log |-> <<Commit(2, "ann")>>],
     [user |-> "u", repo |-> "p6", unknown |-> {<<"r", ".", "x">>},
      files |-> {},
      git_log |-> <<Commit(1, "cy")>>]}

ProjectTree(p) == p.unknown \cup {f.file_name : f \in p.files}

ProjectTech(p) ==
    {process_file([file_name |-> f.file_name, commit_sha1 |-> p.git_log[1].sha1,
                   commit_date_epoch |-> p.git_log[1].date_epoch,
                   commit_date_iso |-> p.git_log[1].date,
                   all_tree_files |-> Some(ProjectTree(p))],
                  [ok |-> TRUE, bytes |-> f.bytes], RulesNamed(f.rules)) : f \in p.files}

(* the project report of p *)
ProjectReport(p) ==
    with_github(
        update_project_file_lists(
            add_commits_history(
                recompute_tech_section(
                    [ReportNew("uuid-" \o p.repo, Dates[3]) EXCEPT
                        !.per_file_tech = ProjectTech(p)],
                    SeqOfSet(ProjectTech(p))),
                p.git_log, Some({"remote-" \o p.repo})),
            ProjectTree(p)),
        p.user, p.repo, None)

AssembledReports == {ProjectReport(p) : p \in Projects}

NoMerges ==
    [first |-> None, second |-> None, ab |-> None, ba |-> None, ab_c |-> None, bc |-> None,
     a_bc |-> None]

InitMerge ==
    /\ IdleFile /\ IdleMuncher /\ IdleBuild /\ IdleLife
    /\ \E a \in AssembledReports, b \in AssembledReports, c \in AssembledReports :
           inputs = [a |-> a, b |-> b, c |-> c]
    /\ merged = NoMerges
    /\ mstep = 0

MergeFrame(n) ==
    /\ mstep' = n
    /\ UNCHANGED inputs
    /\ UNCHANGED <<fileVars, muncherVars, buildVars, lifeVars>>

(* Report::merge(Some(a), b) *)
MergeAB ==
    /\ mstep = 0
    /\ \E order \in Orderings(inputs.b.tech) :
           merged' = [merged EXCEPT !.ab = merge(Some(inputs.a), inputs.b, order)]
    /\ MergeFrame(1)

(* Report::merge(Some(b), a) *)
MergeBA ==
    /\ mstep = 1
    /\ \E order \in Orderings(inputs.a.tech) :
           merged' = [merged EXCEPT !.ba = merge(Some(inputs.b), inputs.a, order)]
    /\ MergeFrame(2)

(* Report::merge(merge(Some(a), b), c) *)
MergeAB_C ==
    /\ mstep = 2
    /\ \E order \in Orderings(inputs.c.tech) :
           merged' = [merged EXCEPT !.ab_c = merge(merged.ab, inputs.c, order)]
    /\ MergeFrame(3)

(* Report::merge(Some(b), c) *)
MergeBC ==
    /\ mstep = 3
    /\ \E order \in Orderings(inputs.c.tech) :
           merged' = [merged EXCEPT !.bc = merge(Some(inputs.b), inputs.c, order)]
    /\ MergeFrame(4)

(* Report::merge(Some(a), merge(Some(b), c)) *)
MergeA_BC ==
    /\ mstep = 4
    /\ \E order \in Orderings(Unwrap(merged.bc).tech) :
           merged' = [merged EXCEPT !.a_bc = merge(Some(inputs.a), Unwrap(merged.bc), order)]
    /\ MergeFrame(5)

NextMerge == MergeAB \/ MergeBA \/ MergeAB_C \/ MergeBC \/ MergeA_BC

SpecMerge == InitMerge /\ [][NextMerge]_vars

(* structural equality of two reports on tech, unknown_file_types and reports_included *)
SameMerged(r1, r2) ==
    /\ r1.tech = r2.tech
    /\ r1.unknown_file_types = r2.unknown_file_types
    /\ r1.reports_included = r2.reports_included

(* C9: project merge is commutative: merge(Some(a), b) and merge(Some(b), a) are
   equal on tech (counters, keywords, refs, pkgs, refs_kw, pkgs_kw),
   unknown_file_types and reports_included. *)
C9_MergeCommutative ==
    mstep >= 2 => SameMerged(Unwrap(merged.ab), Unwrap(merged.ba))

(* C10: project merge is associative: merge(merge(a, b), c) and merge(a, merge(b, c))
   are equal on tech, unknown_file_types and reports_included, and the object name
   of c is in reports_included of both. *)
C10_MergeAssociative ==
    mstep >= 5 =>
        /\ SameMerged(Unwrap(merged.ab_c), Unwrap(merged.a_bc))
        /\ inputs.c.report_s3_name # "" =>
               /\ inputs.c.report_s3_name \in Unwrap(merged.ab_c).reports_included
               /\ inputs.c.report_s3_name \in Unwrap(merged.a_bc).reports_included

----------------------------------------------------------------------------
(***************************************************************************)
(* test_merge: two stored reports are read back and merged, the first one  *)
(* into None.  A stored report may hold several tech records of one        *)
(* language, one per muncher.                                              *)
(***************************************************************************)
ProjectNamed(repo) == CHOOSE p \in Projects : p.repo = repo

StoredTech(p, muncher_name) ==
    {[t EXCEPT !.muncher_name = muncher_name] : t \in ProjectReport(p).tech}

StoredReports ==
    {[ProjectReport(ProjectNamed("p1")) EXCEPT
         !.tech = StoredTech(ProjectNamed("p1"), "js")
                      \cup StoredTech(ProjectNamed("p2"), "jsx")],
     [ProjectReport(ProjectNamed("p4")) EXCEPT
         !.tech = StoredTech(ProjectNamed("p4"), "v1")
                      \cup StoredTech(ProjectNamed("p3"), "v2")]}

TestReports == AssembledReports \cup StoredReports

InitMergeTest ==
    /\ IdleFile /\ IdleMuncher /\ IdleBuild /\ IdleLife
    /\ \E r1 \in TestReports, r2 \in TestReports : inputs = [a |-> r1, b |-> r2, c |-> r2]
    /\ merged = NoMerges
    /\ mstep = 0

(* let rm = Report::merge(None, r1) *)
MergeFirst ==
    /\ mstep = 0
    /\ \E order \in Orderings(inputs.a.tech) :
           merged' = [merged EXCEPT !.first = merge(None, inputs.a, order)]
    /\ MergeFrame(1)

(* let rm = Report::merge(Some(rm), r2) *)
MergeSecond ==
    /\ mstep = 1
    /\ \E order \in Orderings(inputs.b.tech) :
           merged' = [merged EXCEPT !.second = merge(merged.first, inputs.b, order)]
    /\ MergeFrame(2)

NextMergeTest == MergeFirst \/ MergeSecond

SpecMergeTest == InitMergeTest /\ [][NextMergeTest]_vars

RECURSIVE SumSeq(_)
SumSeq(numbers) == IF numbers = <<>> THEN 0 ELSE Head(numbers) + SumSeq(Tail(numbers))

LanguagesOf(tech_set) == {t.language : t \in tech_set}

(* the sum of files over the records of one language *)
FilesOf(tech_set, language) ==
    LET records == SeqOfSet({t \in tech_set : t.language = language})
    IN  SumSeq([i \in 1..Len(records) |-> records[i].files])

CountTotal(counters) ==
    LET cs == SeqOfSet(counters)
    IN  SumSeq([i \in 1..Len(cs) |-> cs[i].c])

(* the total of the refs counts over the records of one language *)
RefsOf(tech_set, language) ==
    LET records == SeqOfSet({t \in tech_set : t.language = language})
    IN  SumSeq([i \in 1..Len(records) |-> CountTotal(records[i].refs)])

(* the total of the pkgs counts over the records of one language *)
PkgsOf(tech_set, language) ==
    LET records == SeqOfSet({t \in tech_set : t.language = language})
    IN  SumSeq([i \in 1..Len(records) |-> CountTotal(records[i].pkgs)])

(* C8: rm = merge(Some(merge(None, r1)), r2) has, for each language of r1.tech or
   r2.tech, records of that language whose files is the sum of files over the records
   of that language in r1.tech and r2.tech, the totals of its refs counts and of its
   pkgs counts are the totals over r1 and r2, and rm.tech has no language that is in
   neither input. *)
C8_MergeSumsPerLanguage ==
    merged.second # None =>
        LET rm == Unwrap(merged.second)
            r1 == inputs.a
            r2 == inputs.b
        IN  /\ LanguagesOf(rm.tech) \subseteq LanguagesOf(r1.tech) \cup LanguagesOf(r2.tech)
            /\ \A language \in LanguagesOf(r1.tech) \cup LanguagesOf(r2.tech) :
                   /\ language \in LanguagesOf(rm.tech)
                   /\ \A t \in rm.tech :
                          t.language = language =>
                              t.files = FilesOf(r1.tech, language) + FilesOf(r2.tech, language)
                   /\ RefsOf(rm.tech, language)
                          = RefsOf(r1.tech, language) + RefsOf(r2.tech, language)
                   /\ PkgsOf(rm.tech, language)
                          = PkgsOf(r1.tech, language) + PkgsOf(r2.tech, language)

(* r1 holds two records of one language, r2 one more, and the merged report has their
   files and refs added up *)
C8_Witness ==
    /\ merged.second # None
    /\ \E t1 \in inputs.a.tech, t2 \in inputs.a.tech, t3 \in inputs.b.tech :
           /\ t1 # t2
           /\ t1.language = t2.language
           /\ t3.language = t1.language
           /\ t1.refs # {} /\ t3.refs # {}
           /\ \E t \in Unwrap(merged.second).tech :
                  /\ t.language = t1.language
                  /\ t.files = t1.files + t2.files + t3.files
                  /\ t.files >= 3

----------------------------------------------------------------------------
(***************************************************************************)
(* The life of a report: a new or an assembled project report, and the     *)
(* operations of Report applied to it one after another.  The other report *)
(* of a merge is an assembled project report; one of the projects was      *)
(* analysed after the rules of its muncher had been edited.                *)
(***************************************************************************)
UpdatedRules ==
    LET js == CHOOSE d \in RuleDocs : d.name = "js"
    IN  Unwrap(MuncherNew([valid |-> TRUE,
                           doc |-> [js.doc EXCEPT !.keywords = Some(<< <<"b">> >>)]],
                          js.name))

RefreshedProject ==
    [user |-> "u", repo |-> "p7", unknown |-> {},
     files |-> {[file_name |-> <<"x", ".", "j", "s">>, bytes |-> <<"a", "\n", "b">>],
                [file_name |-> <<"z", ".", "j", "s">>, bytes |-> <<"b">>]},
     git_log |-> <<Commit(2, "ann")>>]

RefreshedTech ==
    LET p == RefreshedProject
    IN  {process_file([file_name |-> f.file_name, commit_sha1 |-> p.git_log[1].sha1,
                       commit_date_epoch |-> p.git_log[1].date_epoch,
                       commit_date_iso |-> p.git_log[1].date,
                       all_tree_files |-> Some(ProjectTree(p))],
                      [ok |-> TRUE, bytes |-> f.bytes], UpdatedRules) : f \in p.files}

RefreshedReport ==
    LET p == RefreshedProject
    IN  with_github(
            update_project_file_lists(
                add_commits_history(
                    recompute_tech_section(
                        [ReportNew("uuid-" \o p.repo, Dates[3]) EXCEPT
                            !.per_file_tech = RefreshedTech],
                        SeqOfSet(RefreshedTech)),
                    p.git_log, Some({"remote-" \o p.repo})),
                ProjectTree(p)),
            p.user, p.repo, None)

NewReport == ReportNew("uuid-0", Dates[1])

LifeReports ==
    {ProjectReport(ProjectNamed("p1")), ProjectReport(ProjectNamed("p3")),
     ProjectReport(ProjectNamed("p4")), RefreshedReport}

GithubArgs ==
    {[user |-> "u", repo |-> "p9", hash |-> None],
     [user |-> "u", repo |-> "p9", hash |-> Some("h")],
     [user |-> "", repo |-> "p9", hash |-> None]}

Operation(name, id, other, order) ==
    [name |-> name, id |-> id, other |-> other, order |-> order]

InitLife ==
    /\ IdleFile /\ IdleMuncher /\ IdleBuild /\ IdleMerge
    /\ rep \in {NewReport} \cup LifeReports
    /\ before = rep
    /\ op = Operation("new", "", <<>>, <<>>)
    /\ steps = 0
    /\ derived = TRUE

LifeFrame ==
    /\ steps < MaxOps
    /\ steps' = steps + 1
    /\ before' = rep
    /\ UNCHANGED <<fileVars, muncherVars, buildVars, mergeVars>>

DoWithGithub ==
    /\ LifeFrame
    /\ \E g \in GithubArgs :
           /\ rep' = with_github(rep, g.user, g.repo, g.hash)
           /\ op' = Operation("with_github", g.user, <<>>, <<>>)
    /\ UNCHANGED derived

(* Report::merge(None, other): the start of a combined report *)
DoMergeIntoNone ==
    /\ LifeFrame
    /\ rep = NewReport
    /\ \E other \in LifeReports : \E order \in Orderings(other.tech) :
           /\ rep' = Unwrap(merge(None, other, order))
           /\ op' = Operation("merge_none", "", other, order)
    /\ derived' = FALSE

(* Report::merge(Some(rep), other) *)
DoMerge ==
    /\ LifeFrame
    /\ \E other \in LifeReports : \E order \in Orderings(other.tech) :
           /\ rep' = Unwrap(merge(Some(rep), other, order))
           /\ op' = Operation("merge", "", other, order)
    /\ derived' = FALSE

DoMergeContributorReports ==
    /\ LifeFrame
    /\ \E other \in LifeReports : \E order \in Orderings(other.per_file_tech) :
           /\ rep' = merge_contributor_reports(rep, other, "ann", order)
           /\ op' = Operation("merge_contributor_reports", "ann", other, order)
    /\ derived' = FALSE

DoRecomputeTechSection ==
    /\ LifeFrame
    /\ \E order \in Orderings(rep.per_file_tech) :
           /\ rep' = recompute_tech_section(rep, order)
           /\ op' = Operation("recompute_tech_section", "", <<>>, order)
    /\ derived' = TRUE

(* uuid::Uuid::new_v4() of the n-th operation: an id no report carries yet *)
NewUuid(n) == "uuid-new-" \o ToString(n)

(* chrono::Utc::now() of the n-th operation: later than every time read before, and
   than the timestamps of the reports the life starts from *)
UtcNow(n) == "now-" \o ToString(n)

DoResetCombinedContributorReport ==
    /\ LifeFrame
    /\ rep' = reset_combined_contributor_report(rep, "ann", NewUuid(steps'), UtcNow(steps'))
    /\ op' = Operation("reset_combined_contributor_report", "ann", <<>>, <<>>)
    /\ UNCHANGED derived

DoResetCombinedDevReport ==
    /\ LifeFrame
    /\ rep' = reset_combined_dev_report(rep, UtcNow(steps'))
    /\ op' = Operation("reset_combined_dev_report", "", <<>>, <<>>)
    /\ derived' = FALSE

DoUpdateProjectFileLists ==
    /\ LifeFrame
    /\ \E p \in {ProjectNamed("p1"), ProjectNamed("p3")} :
           /\ rep' = update_project_file_lists(rep, ProjectTree(p))
           /\ op' = Operation("update_project_file_lists", p.repo, <<>>, <<>>)
    /\ UNCHANGED derived

DoAbridge ==
    /\ LifeFrame
    /\ rep' = abridge(rep)
    /\ op' = Operation("abridge", "", <<>>, <<>>)
    /\ derived' = FALSE

(* Report::copy_commit_info from the report of an earlier run *)
DoCopyCommitInfo ==
    /\ LifeFrame
    /\ \E old_report \in LifeReports :
           /\ rep' = copy_commit_info(rep, old_report)
           /\ op' = Operation("copy_commit_info", "", old_report, <<>>)
    /\ UNCHANGED derived

NextLife ==
    \/ DoWithGithub
    \/ DoMergeIntoNone
    \/ DoMerge
    \/ DoMergeContributorReports
    \/ DoRecomputeTechSection
    \/ DoResetCombinedContributorReport
    \/ DoResetCombinedDevReport
    \/ DoUpdateProjectFileLists
    \/ DoAbridge
    \/ DoCopyCommitInfo

SpecLife == InitLife /\ [][NextLife]_vars

(* the per-file records of one identity on either side of a contributor merge *)
SameIdentity(t, per_file_tech) == {e \in per_file_tech : TechEq(e, t)}

(* C11: after merge_contributor_reports(other, id), for every per-file identity present
   in self.per_file_tech or other.per_file_tech before the call, self.per_file_tech
   holds exactly one entry of that identity, its commit_date_epoch is the maximum of
   the epochs the identity had on either side, and id is in git_ids_included. *)
C11_ContributorMergeRecency ==
    op.name = "merge_contributor_reports" =>
        /\ op.id \in rep.git_ids_included
        /\ \A t \in before.per_file_tech \cup op.other.per_file_tech :
               LET sides == SameIdentity(t, before.per_file_tech)
                                \cup SameIdentity(t, op.other.per_file_tech)
                   survivors == SameIdentity(t, rep.per_file_tech)
               IN  /\ Cardinality(survivors) = 1
                   /\ \A e \in survivors :
                          /\ \E x \in sides : x.commit_date_epoch = e.commit_date_epoch
                          /\ \A x \in sides :
                                 ~EpochGreater(x.commit_date_epoch, e.commit_date_epoch)

(* a file analysed on both sides, the other side at a later commit: the later record
   has replaced the earlier one *)
C11_Witness ==
    /\ op.name = "merge_contributor_reports"
    /\ \E t \in before.per_file_tech, u \in op.other.per_file_tech :
           /\ TechEq(t, u)
           /\ EpochGreater(u.commit_date_epoch, t.commit_date_epoch)
           /\ u \in rep.per_file_tech
           /\ t \notin rep.per_file_tech

(* C12: recompute_tech_section is idempotent (a second application gives the same tech
   as the first), leaves per_file_tech unchanged, and its tech is the fold of every
   per_file_tech entry through merge_tech_record from an empty tech set, whatever tech
   held before the call.  The second application iterates the unchanged set in the same
   order as the first. *)
C12_RecomputeIdempotent ==
    op.name = "recompute_tech_section" =>
        /\ rep.per_file_tech = before.per_file_tech
        /\ recompute_tech_section(rep, op.order).tech = rep.tech
        /\ rep.tech = MergeTechRecords(NewReport, op.order).tech

(* tech held other records before the call, and a non-empty per_file_tech was folded *)
C12_Witness ==
    /\ op.name = "recompute_tech_section"
    /\ before.tech # {}
    /\ before.tech # rep.tech
    /\ Len(op.order) >= 2
    /\ rep.tech # {}

(* C13: the order in which per-file Tech records are folded into a report is
   unobservable: every permutation of the merge_tech_record calls over per_file_tech
   yields the same tech set, equal on every field of each aggregated record (counters,
   keywords, refs, pkgs, refs_kw, pkgs_kw, muncher_name, muncher_hash). *)
C13_FoldOrderUnobservable ==
    op.name = "recompute_tech_section" =>
        \A order \in Orderings(before.per_file_tech) :
            recompute_tech_section(before, order).tech = rep.tech

(* C14: in every report reachable from Report::new() by with_github, merge,
   merge_contributor_reports, recompute_tech_section, the two resets,
   update_project_file_lists and abridge, a non-empty report_s3_name is a member of
   reports_included. *)
C14_NameInReportsIncluded ==
    rep # <<>> /\ rep.report_s3_name # "" => rep.report_s3_name \in rep.reports_included

(* a report that had lost its name in a reset is named again by with_github *)
C14_Witness ==
    /\ op.name = "with_github"
    /\ steps >= 2
    /\ before.report_s3_name = ""
    /\ before.reports_included # {}
    /\ rep.report_s3_name # ""
    /\ rep.report_s3_name \in rep.reports_included

(* C15: whenever tree_files is present in a report, every file_name of an entry of
   per_file_tech is a member of tree_files, also after update_project_file_lists(T)
   for any prior per_file_tech and after merge_contributor_reports. *)
C15_PerFileTechWithinTree ==
    rep # <<>> /\ rep.tree_files # None =>
        \A t \in rep.per_file_tech :
            t.file_name # None => Unwrap(t.file_name) \in Unwrap(rep.tree_files)

(* tech is what recompute_tech_section produces from per_file_tech, in some order of
   iteration of the set *)
TechDerivable(r) ==
    \E order \in Orderings(r.per_file_tech) : r.tech = recompute_tech_section(r, order).tech

(* C16: in every reachable state of a report, after any sequence of merge,
   merge_contributor_reports, recompute_tech_section and abridge, tech equals what
   recompute_tech_section would produce from the current per_file_tech. *)
C16_TechDerivableAlways == rep # <<>> => TechDerivable(rep)

(* C16 as amended: tech equals what recompute_tech_section produces from the current
   per_file_tech in a new report and from recompute_tech_section on, until the next
   merge, merge_contributor_reports, abridge or reset_combined_dev_report. *)
C16_TechDerivableSinceRecompute == rep # <<>> /\ derived => TechDerivable(rep)

(* a contributor merge left tech behind per_file_tech, recompute_tech_section brought it
   up to date and a later operation kept it so *)
C16_Witness ==
    /\ derived
    /\ steps >= 3
    /\ op.name \in {"with_github", "update_project_file_lists",
                    "reset_combined_contributor_report"}
    /\ Cardinality(rep.per_file_tech) >= 2
    /\ rep.tech # {}
    /\ \E r \in LifeReports : r.per_file_tech # {} /\ r.per_file_tech \subseteq rep.per_file_tech
    /\ \A r \in LifeReports : rep.tech # r.tech

----------------------------------------------------------------------------
(***************************************************************************)
(* The dates of a report: add_commits_history on a new report for a commit *)
(* log, then merges with reports that got their dates the same way.  A log *)
(* is listed from HEAD back; date_epoch is 0 for a commit whose date was   *)
(* not read.                                                               *)
(***************************************************************************)
GitCommits ==
    {[sha1 |-> "c" \o ToString(n) \o (IF dated THEN "" ELSE "-undated"),
      date |-> Dates[n],
      date_epoch |-> IF dated THEN n * 100 ELSE 0,
      author_name_email |-> "ann"] : n \in 1..Len(Dates), dated \in BOOLEAN}

GitLogs ==
    {<<>>} \cup {<<c>> : c \in GitCommits}
           \cup {<<head, init>> : head \in GitCommits, init \in GitCommits}

DatedReport(git_log) == add_commits_history(NewReport, git_log, None)

InitDates ==
    /\ IdleFile /\ IdleMuncher /\ IdleBuild /\ IdleMerge
    /\ rep = NewReport
    /\ before = rep
    /\ op = Operation("new", "", <<>>, <<>>)
    /\ steps = 0
    /\ derived = TRUE

(* what get_hashed_remote_urls can answer: a failure, no remote, one remote *)
RemoteUrlHashes == {None, Some({}), Some({"h1"})}

(* Report::add_commits_history on the new report, up to its await of
   get_hashed_remote_urls (line 568) *)
DoAddCommitsHistory ==
    /\ steps = 0
    /\ op.name = "new"
    /\ \E git_log \in GitLogs :
           /\ rep' = AddCommitsHistoryStart(rep, git_log)
           /\ op' = Operation("add_commits_history.await", "", <<>>, git_log)
    /\ before' = rep
    /\ UNCHANGED <<steps, derived>>
    /\ UNCHANGED <<fileVars, muncherVars, buildVars, mergeVars>>

(* Report::add_commits_history resumed with the outcome of get_hashed_remote_urls
   (lines 568-579) *)
DoHashedRemoteUrls ==
    /\ op.name = "add_commits_history.await"
    /\ \E remote_hashes \in RemoteUrlHashes :
           rep' = AddCommitsHistoryResume(rep, remote_hashes)
    /\ op' = [op EXCEPT !.name = "add_commits_history"]
    /\ steps' = steps + 1
    /\ UNCHANGED <<before, derived>>
    /\ UNCHANGED <<fileVars, muncherVars, buildVars, mergeVars>>

(* Report::merge(Some(rep), other) with the report of another project *)
DoMergeDated ==
    /\ steps >= 1
    /\ LifeFrame
    /\ \E git_log \in GitLogs :
           /\ rep' = Unwrap(merge(Some(rep), DatedReport(git_log), <<>>))
           /\ op' = Operation("merge", "", DatedReport(git_log), <<>>)
    /\ UNCHANGED derived

NextDates == DoAddCommitsHistory \/ DoHashedRemoteUrls \/ DoMergeDated

SpecDates == InitDates /\ [][NextDates]_vars

(* date_init <= date_head as strings, when both are present *)
DatesInOrder(r) ==
    r.date_init # None /\ r.date_head # None =>
        ~StrLess(Unwrap(r.date_head), Unwrap(r.date_init))

(* C17: every report in which both dates are present has date_init <= date_head:
   add_commits_history establishes it for any commit log, and merge preserves it for
   any pair of inputs that each satisfy it, also when one of the two dates is missing
   in an input. *)
C17_DateInitBeforeHead ==
    /\ op.name = "add_commits_history" => DatesInOrder(rep)
    /\ (op.name = "merge" /\ DatesInOrder(before) /\ DatesInOrder(op.other)) =>
           DatesInOrder(rep)

(* the later of two optional dates: the one present when only one is *)
LaterDate(d1, d2) ==
    IF d1 = None THEN d2
    ELSE IF d2 = None THEN d1
    ELSE IF DateRank(Unwrap(d1)) >= DateRank(Unwrap(d2)) THEN d1 ELSE d2

EarlierDate(d1, d2) ==
    IF d1 = None THEN d2
    ELSE IF d2 = None THEN d1
    ELSE IF DateRank(Unwrap(d1)) <= DateRank(Unwrap(d2)) THEN d1 ELSE d2

(* C18: with a master report present, merge sets master.date_head to the later of the
   two date_head values and master.date_init to the earlier of the two date_init
   values; when only one side has the date the result is that side's value, and a
   date present on master is never replaced by a missing one. *)
C18_MergeDates ==
    op.name = "merge" =>
        /\ rep.date_head = LaterDate(before.date_head, op.other.date_head)
        /\ rep.date_init = EarlierDate(before.date_init, op.other.date_init)
        /\ before.date_head # None => rep.date_head # None
        /\ before.date_init # None => rep.date_init # None

(* the other report has the later head and the earlier init, and both replaced the
   master's dates *)
C18_Witness ==
    /\ op.name = "merge"
    /\ before.date_head # None /\ before.date_init # None
    /\ op.other.date_head # None /\ op.other.date_init # None
    /\ StrLess(Unwrap(before.date_head), Unwrap(op.other.date_head))
    /\ StrLess(Unwrap(op.other.date_init), Unwrap(before.date_init))
    /\ rep.date_head = op.other.date_head
    /\ rep.date_init = op.other.date_init

(* the parts of C19 other than the report_id *)
DevReportCleared ==
    /\ rep.contributors = None
    /\ rep.tree_files = None
    /\ rep.remote_url_hashes = None
    /\ rep.report_commit_sha1 = None
    /\ rep.last_commit_author = None
    /\ rep.log_hash = None
    /\ rep.per_file_tech = {}
    /\ rep.timestamp # before.timestamp
    /\ rep.timestamp = UtcNow(steps)
    /\ rep.tech = before.tech

(* C19: reset_combined_dev_report leaves contributors, tree_files, remote_url_hashes,
   report_commit_sha1, last_commit_author and log_hash absent and per_file_tech empty,
   issues a new timestamp and a new, freshly generated and non-empty report_id, and
   leaves tech unchanged. *)
C19_ResetDevReport ==
    op.name = "reset_combined_dev_report" =>
        /\ DevReportCleared
        /\ rep.report_id # ""
        /\ rep.report_id # before.report_id

----------------------------------------------------------------------------
(***************************************************************************)
(* add_unprocessed_file on one path of the tree, for a report with and     *)
(* without unknown file types counted already.                             *)
(***************************************************************************)
PathChars == {"a", ".", "/"}

(* the part of a path after its last "/" *)
Basename(path) == SubSeq(path, LastIndexOf(path, "/") + 1, Len(path))

(* the paths a git tree can hold: no empty component, and none that is "." or ".." *)
RECURSIVE ValidPath(_)
ValidPath(path) ==
    LET slash == FirstIndexOf(path, "/")
        component == IF slash = 0 THEN path ELSE SubSeq(path, 1, slash - 1)
    IN  /\ component \notin {<<>>, <<".">>, <<".", ".">>}
        /\ slash # 0 => ValidPath(SubSeq(path, slash + 1, Len(path)))

TreePaths == {path \in SeqsUpTo(PathChars, MaxPathLen) : ValidPath(path)}

InitUnprocessed ==
    /\ IdleFile /\ IdleMuncher /\ IdleBuild /\ IdleMerge
    /\ rep \in {NewReport, add_unprocessed_file(NewReport, <<"b", ".", "a">>)}
    /\ before = rep
    /\ \E path \in TreePaths : op = Operation("update_project_file_lists", "", path, <<>>)
    /\ steps = 0
    /\ derived = TRUE

(* Report::add_unprocessed_file for the path update_project_file_lists found unprocessed *)
DoAddUnprocessedFile ==
    /\ steps = 0
    /\ LifeFrame
    /\ rep' = add_unprocessed_file(rep, op.other)
    /\ op' = Operation("add_unprocessed_file", "", op.other, <<>>)
    /\ UNCHANGED derived

NextUnprocessed == DoAddUnprocessedFile

SpecUnprocessed == InitUnprocessed /\ [][NextUnprocessed]_vars

(* the extension of a path: what follows the final "." of the basename; none when the
   basename has no ".", ends in ".", or is a dotfile (starts with "." and has no
   other ".") *)
CountedExtension(path) ==
    LET base == Basename(path)
        dot == LastIndexOf(base, ".")
        ext == SubSeq(base, dot + 1, Len(base))
    IN  IF dot = 0 \/ ext = <<>> \/ dot = 1 THEN None ELSE Some(ext)

(* C20: add_unprocessed_file always adds the path to unprocessed_file_names and
   increments unknown_file_types by exactly 1 for the extension that begins after the
   final "." of the basename; paths with no ".", with an empty extension, dotfiles and
   paths whose last "." is in a folder name leave unknown_file_types unchanged. *)
C20_UnknownFileTypes ==
    op.name = "add_unprocessed_file" =>
        /\ rep.unprocessed_file_names = before.unprocessed_file_names \cup {op.other}
        /\ rep.unknown_file_types =
               IF CountedExtension(op.other) = None THEN before.unknown_file_types
               ELSE increment_counters(before.unknown_file_types,
                                       KeywordCounter(Unwrap(CountedExtension(op.other)), 1))

----------------------------------------------------------------------------
(***************************************************************************)
(* Line splitting of the decoded text of a blob (process_file).            *)
(***************************************************************************)
(* the text the decoder of an attempt hands to the line splitter: UTF-8, or
   WINDOWS-1252 in the ANSI attempt *)
DecodedText(b, try_ansi) ==
    IF try_ansi THEN Unwrap(DecodeWindows1252(b.bytes)) ELSE Unwrap(DecodeUtf8(b.bytes))

(* the lines of a text split on any of \n, \r\n and \r, without a trailing empty line
   when the text ends with a newline *)
RECURSIVE UniversalLines(_)
UniversalLines(text) ==
    LET breaks == {i \in 1..Len(text) : text[i] \in {"\n", "\r"}}
    IN  IF text = <<>> THEN <<>>
        ELSE IF breaks = {} THEN <<text>>
        ELSE LET at == CHOOSE i \in breaks : \A j \in breaks : i <= j
                 width == IF text[at] = "\r" /\ at < Len(text) /\ text[at + 1] = "\n"
                          THEN 2 ELSE 1
             IN  <<SubSeq(text, 1, at - 1)>>
                     \o UniversalLines(SubSeq(text, at + width, Len(text)))

(* C21: the decoded text is split into lines on any of \n, \r\n and \r, a trailing
   empty line is dropped exactly when the input ends with a newline, and total_lines
   of the resulting Tech is the number of lines so produced. *)
C21_LineSplitting ==
    pc = "done" /\ get_file_lines(blob, ansi) # None =>
        /\ get_file_lines(blob, ansi) = Some(UniversalLines(DecodedText(blob, ansi)))
        /\ tech.total_lines = Len(UniversalLines(DecodedText(blob, ansi)))

(* C22: merge_contributor_reports(other, id) adds the name of the other report
   (other.report_s3_name) to self.reports_included and does not change self.tech. *)
C22_ContributorMergeAddsName ==
    op.name = "merge_contributor_reports" =>
        /\ op.other.report_s3_name \in rep.reports_included
        /\ rep.tech = before.tech

(* C23: Report::merge clears unprocessed files and unknown extensions: for any master
   (absent or present) and any other report, the report returned by merge has empty
   unprocessed_file_names and empty unknown_file_types. *)
C23_MergeClearsUnprocessed ==
    op.name \in {"merge", "merge_none"} =>
        /\ rep.unprocessed_file_names = {}
        /\ rep.unknown_file_types = {}

----------------------------------------------------------------------------
(***************************************************************************)
(* Contributor merges.  Besides the project reports of the report life,   *)
(* the two sides are the report of a project whose only commit has the     *)
(* date of another project's, and reports read back without commit dates   *)
(* on their per-file records.                                              *)
(***************************************************************************)
SameDayProject ==
    [user |-> "u", repo |-> "p8", unknown |-> {},
     files |-> {[file_name |-> <<"x", ".", "j", "s">>, rules |-> "js",
                 bytes |-> <<"b", "\n", "b">>]},
     git_log |-> <<Commit(1, "cy")>>]

(* a report whose per-file records carry no commit coordinates *)
Undated(r) ==
    [r EXCEPT !.per_file_tech =
        {[t EXCEPT !.commit_sha1 = None, !.commit_date_epoch = None,
                   !.commit_date_iso = None] : t \in r.per_file_tech}]

ContributorInputs ==
    LifeReports
        \cup {ProjectReport(SameDayProject),
              Undated(ProjectReport(ProjectNamed("p1"))),
              Undated(ProjectReport(ProjectNamed("p4")))}

InitContributor ==
    /\ IdleFile /\ IdleMuncher /\ IdleBuild /\ IdleMerge
    /\ rep \in ContributorInputs
    /\ before = rep
    /\ op = Operation("new", "", <<>>, <<>>)
    /\ steps = 0
    /\ derived = TRUE

(* Report::merge_contributor_reports(other, id) on the combined contributor report *)
DoMergeContributor ==
    /\ LifeFrame
    /\ \E other \in ContributorInputs : \E order \in Orderings(other.per_file_tech) :
           /\ rep' = merge_contributor_reports(rep, other, "ann", order)
           /\ op' = Operation("merge_contributor_reports", "ann", other, order)
    /\ derived' = FALSE

NextContributor == DoMergeContributor

SpecContributor == InitContributor /\ [][NextContributor]_vars

(* the identities of a set of per-file records *)
Identities(per_file_tech) ==
    {<<t.language, t.muncher_name, t.file_name>> : t \in per_file_tech}

(* C24: in merge_contributor_reports, when an incoming per-file entry and an existing
   entry of equal identity have equal commit_date_epoch (also when both are absent),
   the existing entry is removed and the incoming one inserted, so the survivor's
   counters and commit fields are the incoming report's; an existing entry is kept only
   when its epoch is strictly greater; and per_file_tech never holds more entries than
   there are distinct identities on both sides. *)
C24_TieGoesToIncoming ==
    op.name = "merge_contributor_reports" =>
        /\ \A e \in before.per_file_tech, u \in op.other.per_file_tech :
               TechEq(e, u) =>
                   /\ e.commit_date_epoch = u.commit_date_epoch =>
                          /\ u \in rep.per_file_tech
                          /\ e # u => e \notin rep.per_file_tech
                   /\ (e \in rep.per_file_tech /\ e # u) =>
                          EpochGreater(e.commit_date_epoch, u.commit_date_epoch)
        /\ Cardinality(rep.per_file_tech)
               <= Cardinality(Identities(before.per_file_tech)
                                  \cup Identities(op.other.per_file_tech))

(* both sides hold the same file without a commit date and with different counters:
   the incoming record replaced the existing one *)
C24_Witness ==
    /\ op.name = "merge_contributor_reports"
    /\ \E e \in before.per_file_tech, u \in op.other.per_file_tech :
           /\ TechEq(e, u)
           /\ e.commit_date_epoch = None /\ u.commit_date_epoch = None
           /\ e.refs # u.refs
           /\ u \in rep.per_file_tech
           /\ e \notin rep.per_file_tech

====
